---- MODULE Spec2Model ----
(***************************************************************************)
(* basic_shapes.rs of bevy_prototype_lyon: the four ShapeSprite            *)
(* implementations (rectangle, circle, ellipse, polygon).  Each            *)
(* generate_sprite builds a new vertex buffer, selects one engine slot of  *)
(* the Tessellator by the tessellation mode, unwraps it, calls the shape's *)
(* tessellation entry point, unwraps the result and hands the buffer to    *)
(* create_sprite with the material and the transform's translation.        *)
(*                                                                         *)
(* Numbers stand for f32 values counted in halves of a unit (2 is 1.0), so *)
(* that the halving of the rectangle's Center origin is exact, as it is    *)
(* for f32.  A lyon Point, Vector or Size is a pair <<x, y>>; a bevy Vec2  *)
(* is a record [x, y]; a Vec3 is a triple.                                  *)
(***************************************************************************)
EXTENDS Integers, Sequences, FiniteSets, TLC

VARIABLES
    tessellator,  \* the Tessellator handle: fill and stroke engine slots
    calls,        \* how many generate_sprite calls have been made
    assembled,    \* how many calls create_sprite has received
    last,         \* the record of the latest generate_sprite call
    status        \* "running", or "panicked" once an unwrap has failed

vars == <<tessellator, calls, assembled, last, status>>

(***************************************************************************)
(* Bounds and input domains.                                               *)
(***************************************************************************)
MaxCalls == 2

Origins == {"Center", "BottomLeft", "BottomRight", "TopRight", "TopLeft"}
Kinds == {"Rectangle", "Circle", "Ellipse", "Polygon"}
SlotNames == {"fill", "stroke"}

RectSizes ==
    {[width |-> 4, height |-> 2], [width |-> 2, height |-> 6],
     [width |-> -2, height |-> 0]}
Centers == {[x |-> 2, y |-> -2]}
Radii == {[x |-> 4, y |-> 2]}
CircleRadii == {2}

Rectangles ==
    {[kind |-> "Rectangle", width |-> d.width, height |-> d.height,
      origin |-> o] : d \in RectSizes, o \in Origins}
Circles == [kind : {"Circle"}, radius : CircleRadii, center : Centers]
Ellipses == [kind : {"Ellipse"}, radii : Radii, center : Centers]

Triangle == <<[x |-> 0, y |-> 0], [x |-> 4, y |-> 0], [x |-> 0, y |-> 4]>>
Bowtie ==
    <<[x |-> 0, y |-> 0], [x |-> 4, y |-> 4], [x |-> 4, y |-> 0],
      [x |-> 0, y |-> 4]>>
PointLists == {<<>>, Triangle, Bowtie}
Polygons == [kind : {"Polygon"}, points : PointLists, closed : BOOLEAN]

FillModes == [kind : {"Fill"}, options : [tolerance : {1}]]
StrokeModes == [kind : {"Stroke"}, options : [line_width : {2, 4}]]
Modes == FillModes \cup StrokeModes

\* The material handle and the transform a caller passes along with a shape.
Placements ==
    {[material |-> "red", transform |-> [translation |-> <<0, 0, 0>>, scale |-> 2]],
     [material |-> "blue", transform |-> [translation |-> <<6, -2, 4>>, scale |-> 6]]}

\* Option<FillTessellator>, Option<StrokeTessellator>: present or None, with the
\* number of tessellations the engine has served (its amortised state).
NoneSlot == [present |-> FALSE, calls |-> 0]
SomeSlot == [present |-> TRUE, calls |-> 0]
Handles == [fill : {NoneSlot, SomeSlot}, stroke : {NoneSlot, SomeSlot}]

(***************************************************************************)
(* Arithmetic of the source.                                               *)
(***************************************************************************)
Neg(a) == 0 - a
Half(a) == a \div 2

\* conversions::ToLyonPoint, ToLyonVector
ToLyonPoint(v) == <<v.x, v.y>>
ToLyonVector(v) == <<v.x, v.y>>

RECURSIVE MapPoints(_)
MapPoints(ps) ==
    IF ps = <<>> THEN <<>> ELSE <<ToLyonPoint(Head(ps))>> \o MapPoints(Tail(ps))

\* The origin match with the arms of BottomRight and TopLeft exchanged.
RectangleOriginSwapped(shape) ==
    CASE shape.origin = "Center" ->
            <<Half(Neg(shape.width)), Half(Neg(shape.height))>>
      [] shape.origin = "BottomLeft" -> <<0, 0>>
      [] shape.origin = "BottomRight" -> <<0, Neg(shape.height)>>
      [] shape.origin = "TopRight" -> <<Neg(shape.width), Neg(shape.height)>>
      [] shape.origin = "TopLeft" -> <<Neg(shape.width), 0>>

(***************************************************************************)
(* RectangleShape::generate_sprite, the origin match.                      *)
(***************************************************************************)
RectangleOriginPoint(shape) ==
    CASE shape.origin = "Center" ->
            <<Half(Neg(shape.width)), Half(Neg(shape.height))>>
      [] shape.origin = "BottomLeft" -> <<0, 0>>
      [] shape.origin = "BottomRight" -> <<Neg(shape.width), 0>>
      [] shape.origin = "TopRight" -> <<Neg(shape.width), Neg(shape.height)>>
      [] shape.origin = "TopLeft" -> <<0, Neg(shape.height)>>

\* Rect::new(origin, Size::new(w, h))
RectNew(origin, size) == [origin |-> origin, size |-> size]
RectMin(r) == r.origin
RectMax(r) == <<r.origin[1] + r.size[1], r.origin[2] + r.size[2]>>

(***************************************************************************)
(* What each generate_sprite passes to its tessellation entry point.       *)
(***************************************************************************)
RectangleRequest(shape, options) ==
    [entry |-> "tessellate_rectangle",
     rect |-> RectNew(RectangleOriginPoint(shape),
                      <<shape.width, shape.height>>),
     options |-> options]

CircleRequest(shape, options) ==
    [entry |-> "tessellate_circle",
     center |-> ToLyonPoint(shape.center),
     radius |-> shape.radius,
     options |-> options]

\* The angle is counted in quarter turns; Angle::zero() is 0.
EllipseFillRequest(shape, options) ==
    [entry |-> "tessellate_ellipse",
     center |-> ToLyonPoint(shape.center),
     radii |-> ToLyonVector(shape.radii),
     angle |-> 0,
     winding |-> "Positive",
     options |-> options]

\* The Stroke call site winding the ellipse the other way.
EllipseStrokeNegative(shape, options) ==
    [entry |-> "tessellate_ellipse",
     center |-> ToLyonPoint(shape.center),
     radii |-> ToLyonVector(shape.radii),
     angle |-> 0,
     winding |-> "Negative",
     options |-> options]

EllipseStrokeRequest(shape, options) ==
    [entry |-> "tessellate_ellipse",
     center |-> ToLyonPoint(shape.center),
     radii |-> ToLyonVector(shape.radii),
     angle |-> 0,
     winding |-> "Positive",
     options |-> options]

\* A path that stands a point at the origin in for an empty point list.
PolygonPathPadded(shape) ==
    [points |-> IF shape.points = <<>> THEN <<<<0, 0>>>>
                ELSE MapPoints(shape.points),
     closed |-> shape.closed]

PolygonPath(shape) ==
    [points |-> MapPoints(shape.points), closed |-> shape.closed]

PolygonRequest(shape, options) ==
    [entry |-> "tessellate_polygon",
     polygon |-> PolygonPath(shape),
     options |-> options]

Request(shape, mode) ==
    CASE shape.kind = "Rectangle" -> RectangleRequest(shape, mode.options)
      [] shape.kind = "Circle" -> CircleRequest(shape, mode.options)
      [] shape.kind = "Ellipse" ->
            IF mode.kind = "Fill"
            THEN EllipseFillRequest(shape, mode.options)
            ELSE EllipseStrokeRequest(shape, mode.options)
      [] shape.kind = "Polygon" -> PolygonRequest(shape, mode.options)

(***************************************************************************)
(* The match on the mode, and the unwraps.                                 *)
(***************************************************************************)
\* The polygon's Stroke arm reaching for tessellator.fill.
EngineSlotPolygonFill(kind, mode) ==
    IF mode.kind = "Fill" \/ kind = "Polygon" THEN "fill" ELSE "stroke"

\* match mode { Fill(options) => tessellator.fill ..., Stroke(options) =>
\* tessellator.stroke ... }
EngineSlot(kind, mode) == IF mode.kind = "Fill" THEN "fill" ELSE "stroke"

\* The fill engine standing in for a stroke slot that is None.
UnwrapSlotOrFill(t, name) ==
    IF t[name].present THEN name
    ELSE IF t.fill.present THEN "fill"
    ELSE "panic"

\* tessellator.<slot>.as_mut().unwrap(): the slot, or a panic when it is None.
UnwrapSlot(t, name) == IF t[name].present THEN name ELSE "panic"

\* The result of the tessellation dropped unread.
IgnoreResult(accepted) == TRUE

\* <Result>.unwrap(): TRUE when the call goes on, FALSE when it panics.
UnwrapResult(accepted) == accepted

\* One buffer kept and written into by every call.
RetainedGeometry ==
    IF last.outcome = "none" THEN [vertices |-> <<>>, indices |-> <<>>]
    ELSE last.geometry

\* Geometry(VertexBuffers::new())
NewGeometry == [vertices |-> <<>>, indices |-> <<>>]

\* The Stroke closures with the y axis pointing down.
VertexCtorStrokeFlipped(kind, slot, p) ==
    IF slot = "stroke" THEN <<p[1], Neg(p[2]), 0>> ELSE <<p[1], p[2], 0>>

\* The closures layering each sprite by the number of sprites made so far.
VertexCtorLayered(kind, slot, p) == <<p[1], p[2], assembled>>

\* The closure given to BuffersBuilder::new at the call site of (kind, slot).
VertexCtor(kind, slot, p) == <<p[1], p[2], 0>>

\* The translation added to the vertices as well as passed on.
SpriteCallFolded(material, geometry, transform) ==
    [material |-> material,
     geometry |->
        [geometry EXCEPT !.vertices =
            [i \in 1..Len(geometry.vertices) |->
                <<geometry.vertices[i][1] + transform.translation[1],
                  geometry.vertices[i][2] + transform.translation[2],
                  geometry.vertices[i][3]>>]],
     translation |-> transform.translation]

\* The arguments of create_sprite(material, meshes, geometry,
\* transform.translation).
SpriteCall(material, geometry, transform) ==
    [material |-> material,
     geometry |-> geometry,
     translation |-> transform.translation]

(***************************************************************************)
(* The tessellation engine (lyon), as a deterministic stand-in: it emits   *)
(* the boundary points of the path, for a fill as a triangle fan, for a    *)
(* stroke as a pair of offset vertices per boundary point joined by quads. *)
(* It rejects a polygon whose edges cross.                                  *)
(***************************************************************************)
Rotate(d, quarterTurns) ==
    IF quarterTurns % 2 = 0 THEN d ELSE <<Neg(d[2]), d[1]>>

RECURSIVE Reverse(_)
Reverse(s) == IF s = <<>> THEN <<>> ELSE Reverse(Tail(s)) \o <<Head(s)>>

BoundaryPoints(req) ==
    CASE req.entry = "tessellate_rectangle" ->
            LET lo == RectMin(req.rect)
                hi == RectMax(req.rect)
            IN  <<lo, <<hi[1], lo[2]>>, hi, <<lo[1], hi[2]>>>>
      [] req.entry = "tessellate_circle" ->
            LET c == req.center
                r == req.radius
            IN  <<<<c[1] + r, c[2]>>, <<c[1], c[2] + r>>,
                  <<c[1] - r, c[2]>>, <<c[1], c[2] - r>>>>
      [] req.entry = "tessellate_ellipse" ->
            LET c == req.center
                a == Rotate(<<req.radii[1], 0>>, req.angle)
                b == Rotate(<<0, req.radii[2]>>, req.angle)
                ccw == <<<<c[1] + a[1], c[2] + a[2]>>,
                         <<c[1] + b[1], c[2] + b[2]>>,
                         <<c[1] - a[1], c[2] - a[2]>>,
                         <<c[1] - b[1], c[2] - b[2]>>>>
            IN  IF req.winding = "Positive" THEN ccw ELSE Reverse(ccw)
      [] req.entry = "tessellate_polygon" -> req.polygon.points

PathClosed(req) ==
    IF req.entry = "tessellate_polygon" THEN req.polygon.closed ELSE TRUE

Cross(o, a, b) ==
    (a[1] - o[1]) * (b[2] - o[2]) - (a[2] - o[2]) * (b[1] - o[1])

Sign(a) == IF a > 0 THEN 1 ELSE IF a < 0 THEN -1 ELSE 0

SegmentsCross(a, b, c, d) ==
    /\ Sign(Cross(a, b, c)) * Sign(Cross(a, b, d)) < 0
    /\ Sign(Cross(c, d, a)) * Sign(Cross(c, d, b)) < 0

\* The edges of a path, as pairs of indices into its points.
Edges(n, closed) ==
    {<<i, i + 1>> : i \in 1..(n - 1)}
        \cup (IF closed /\ n >= 3 THEN {<<n, 1>>} ELSE {})

SelfIntersecting(ps, closed) ==
    \E e \in Edges(Len(ps), closed), f \in Edges(Len(ps), closed) :
        SegmentsCross(ps[e[1]], ps[e[2]], ps[f[1]], ps[f[2]])

EngineAccepts(req) ==
    ~(req.entry = "tessellate_polygon"
        /\ SelfIntersecting(req.polygon.points, req.polygon.closed))

RECURSIVE FanIndices(_, _)
FanIndices(i, n) ==
    IF i + 1 >= n THEN <<>> ELSE <<0, i, i + 1>> \o FanIndices(i + 1, n)

RECURSIVE StrokePoints(_, _)
StrokePoints(ps, hw) ==
    IF ps = <<>> THEN <<>>
    ELSE <<<<Head(ps)[1] - hw, Head(ps)[2]>>, <<Head(ps)[1] + hw, Head(ps)[2]>>>>
            \o StrokePoints(Tail(ps), hw)

RECURSIVE QuadIndices(_, _, _)
QuadIndices(i, n, closed) ==
    IF i >= n THEN <<>>
    ELSE IF i = n - 1
         THEN IF closed /\ n >= 3
              THEN <<2 * i, 2 * i + 1, 0, 2 * i + 1, 1, 0>>
              ELSE <<>>
         ELSE <<2 * i, 2 * i + 1, 2 * i + 2, 2 * i + 1, 2 * i + 3, 2 * i + 2>>
                \o QuadIndices(i + 1, n, closed)

\* What the engine of `slot` emits for an accepted request: points and the
\* triangles over them, numbered from 0.
EngineEmit(slot, req) ==
    LET ps == BoundaryPoints(req)
        n == Len(ps)
    IN  IF slot = "fill"
        THEN IF n < 3 THEN [points |-> <<>>, indices |-> <<>>]
             ELSE [points |-> ps, indices |-> FanIndices(1, n)]
        ELSE [points |-> StrokePoints(ps, Half(req.options.line_width)),
              indices |-> QuadIndices(0, n, PathClosed(req))]

RECURSIVE Shift(_, _)
Shift(ixs, by) ==
    IF ixs = <<>> THEN <<>> ELSE <<Head(ixs) + by>> \o Shift(Tail(ixs), by)

RECURSIVE Vertices(_, _, _)
Vertices(kind, slot, ps) ==
    IF ps = <<>> THEN <<>>
    ELSE <<VertexCtor(kind, slot, Head(ps))>> \o Vertices(kind, slot, Tail(ps))

\* BuffersBuilder: vertices are appended through the vertex constructor and
\* indices are offset by the number of vertices the buffer already holds.
BuildInto(geometry, kind, slot, emitted) ==
    [vertices |-> geometry.vertices \o Vertices(kind, slot, emitted.points),
     indices |-> geometry.indices
                    \o Shift(emitted.indices, Len(geometry.vertices))]

\* A rejected tessellation may have written some of its vertices already.
Prefix(emitted, cut) ==
    [points |-> SubSeq(emitted.points, 1, cut), indices |-> <<>>]

(***************************************************************************)
(* generate_sprite, as one step: the body shared by the four               *)
(* implementations, which differ in the request they build.                *)
(***************************************************************************)
NoCall == [outcome |-> "none"]

Presence(t) == [fill |-> t.fill.present, stroke |-> t.stroke.present]

\* How the call before relates to a call of (shape, mode): there was none, it
\* handed over an empty buffer, it converted the same shape in the same mode,
\* or it converted something else.
Prior(shape, mode) ==
    IF last.outcome = "none" THEN "none"
    ELSE IF last.shape = shape /\ last.mode = mode THEN "same"
    ELSE IF last.geometry.vertices = <<>> THEN "empty"
    ELSE "other"

CallRecord(shape, material, mode, transform, after, engineCalls, outcome, emitted, start, geometry, handed) ==
    [shape |-> shape,
     prior |-> Prior(shape, mode),
     start |-> start,
     material |-> material,
     mode |-> mode,
     transform |-> transform,
     handle |-> tessellator,
     after |-> after,
     engineCalls |-> engineCalls,
     outcome |-> outcome,
     emitted |-> emitted,
     geometry |-> geometry,
     handed |-> handed]

GenerateSprite(shape, material, mode, transform) ==
    LET geometry0 == NewGeometry
        asked == EngineSlot(shape.kind, mode)
        used == UnwrapSlot(tessellator, asked)
        req == Request(shape, mode)
    IN  /\ status = "running"
        /\ calls < MaxCalls
        /\ calls' = calls + 1
        /\ IF used = "panic"
           THEN /\ status' = "panicked"
                /\ last' = CallRecord(shape, material, mode, transform,
                                      tessellator, <<>>, "slot_missing", <<>>,
                                      geometry0, geometry0, <<>>)
                /\ UNCHANGED <<tessellator, assembled>>
           ELSE LET accepted == EngineAccepts(req)
                    full == EngineEmit(used, req)
                    call == <<[slot |-> used, request |-> req]>>
                    after == [tessellator EXCEPT ![used].calls = @ + 1]
                IN  /\ tessellator' = after
                    /\ \E cut \in (IF accepted THEN {Len(full.points)}
                                   ELSE 0..Len(full.points)) :
                        LET emitted == IF accepted THEN full ELSE Prefix(full, cut)
                            geometry == BuildInto(geometry0, shape.kind, used,
                                                  emitted)
                            sprite == SpriteCall(material, geometry, transform)
                        IN  IF UnwrapResult(accepted)
                            THEN /\ assembled' = assembled + 1
                                 /\ status' = "running"
                                 /\ last' = CallRecord(shape, material, mode,
                                                transform, after, call, "ok",
                                                emitted.points, geometry0,
                                                geometry, <<sprite>>)
                            ELSE /\ status' = "panicked"
                                 /\ last' = CallRecord(shape, material, mode,
                                                transform, after, call, "rejected",
                                                emitted.points, geometry0,
                                                geometry, <<>>)
                                 /\ UNCHANGED assembled

RectangleGenerateSprite ==
    \E shape \in Rectangles, mode \in Modes, p \in Placements :
        GenerateSprite(shape, p.material, mode, p.transform)

CircleGenerateSprite ==
    \E shape \in Circles, mode \in Modes, p \in Placements :
        GenerateSprite(shape, p.material, mode, p.transform)

EllipseGenerateSprite ==
    \E shape \in Ellipses, mode \in Modes, p \in Placements :
        GenerateSprite(shape, p.material, mode, p.transform)

PolygonGenerateSprite ==
    \E shape \in Polygons, mode \in Modes, p \in Placements :
        GenerateSprite(shape, p.material, mode, p.transform)

\* The caller constructs a new Tessellator, with the same slots, and passes it
\* to the calls that follow.
NewTessellator ==
    /\ status = "running"
    /\ calls < MaxCalls
    /\ tessellator.fill.calls + tessellator.stroke.calls > 0
    /\ tessellator' = [fill |-> [tessellator.fill EXCEPT !.calls = 0],
                       stroke |-> [tessellator.stroke EXCEPT !.calls = 0]]
    /\ UNCHANGED <<calls, assembled, last, status>>

Init ==
    /\ tessellator \in Handles
    /\ calls = 0
    /\ assembled = 0
    /\ last = NoCall
    /\ status = "running"

Next ==
    \/ RectangleGenerateSprite
    \/ CircleGenerateSprite
    \/ EllipseGenerateSprite
    \/ PolygonGenerateSprite
    \/ NewTessellator

Spec == Init /\ [][Next]_vars

(***************************************************************************)
(* Properties.                                                             *)
(***************************************************************************)
Called == last.outcome # "none"
Tessellated == last.outcome \in {"ok", "rejected"}
ModeSlot(mode) == IF mode.kind = "Fill" THEN "fill" ELSE "stroke"
OtherSlot(slot) == IF slot = "fill" THEN "stroke" ELSE "fill"
Fresh(t) == t.fill.calls = 0 /\ t.stroke.calls = 0

\* The box the rectangle of width w and height h spans for each origin, as
\* lower and upper corner.
StatedBox(origin, w, h) ==
    CASE origin = "Center" ->
            [lo |-> <<Neg(Half(w)), Neg(Half(h))>>, hi |-> <<Half(w), Half(h)>>]
      [] origin = "BottomLeft" -> [lo |-> <<0, 0>>, hi |-> <<w, h>>]
      [] origin = "BottomRight" -> [lo |-> <<Neg(w), 0>>, hi |-> <<0, h>>]
      [] origin = "TopRight" -> [lo |-> <<Neg(w), Neg(h)>>, hi |-> <<0, 0>>]
      [] origin = "TopLeft" -> [lo |-> <<0, Neg(h)>>, hi |-> <<w, 0>>]

\* C1: the rectangle a RectangleShape hands to the engine, in Fill and in
\* Stroke mode, has size (w, h) and spans the box stated for its origin:
\* Center (-w/2,-h/2)..(w/2,h/2), BottomLeft (0,0)..(w,h), BottomRight
\* (-w,0)..(0,h), TopRight (-w,-h)..(0,0), TopLeft (0,-h)..(w,0); and two
\* rectangles of the same positive size with different origins get different
\* boxes.
RectangleBoxPerOrigin ==
    /\ (Tessellated /\ last.shape.kind = "Rectangle") =>
            LET r == last.engineCalls[1].request.rect
                w == last.shape.width
                h == last.shape.height
                box == StatedBox(last.shape.origin, w, h)
            IN  /\ r.size = <<w, h>>
                /\ RectMin(r) = box.lo
                /\ RectMax(r) = box.hi
    /\ \A d \in RectSizes, o \in Origins, q \in Origins, m \in Modes :
            (d.width > 0 /\ d.height > 0 /\ o # q) =>
                Request([kind |-> "Rectangle", width |-> d.width,
                         height |-> d.height, origin |-> o], m).rect
                    # Request([kind |-> "Rectangle", width |-> d.width,
                               height |-> d.height, origin |-> q], m).rect

RectangleBoxReached ==
    /\ last.outcome = "ok"
    /\ last.shape.kind = "Rectangle"
    /\ last.shape.origin = "Center"
    /\ last.mode.kind = "Stroke"
    /\ last.shape.width = 4

StatedEntry(kind) ==
    CASE kind = "Rectangle" -> "tessellate_rectangle"
      [] kind = "Circle" -> "tessellate_circle"
      [] kind = "Ellipse" -> "tessellate_ellipse"
      [] kind = "Polygon" -> "tessellate_polygon"

\* C2: a call that reaches the engine invokes the slot of its mode exactly
\* once, with the entry point of its shape kind, and leaves the other slot as
\* it was, populated or not; a call that does not reach the engine invokes
\* neither.
ModeExclusivity ==
    Called =>
        LET slot == ModeSlot(last.mode)
        IN  /\ last.after[OtherSlot(slot)] = last.handle[OtherSlot(slot)]
            /\ \A i \in 1..Len(last.engineCalls) :
                    last.engineCalls[i].slot = slot
            /\ IF Tessellated
               THEN /\ Len(last.engineCalls) = 1
                    /\ last.engineCalls[1].request.entry
                            = StatedEntry(last.shape.kind)
                    /\ last.after[slot].calls = last.handle[slot].calls + 1
               ELSE /\ last.engineCalls = <<>>
                    /\ last.after = last.handle

ModeExclusivityReached ==
    /\ last.outcome = "ok"
    /\ last.mode.kind = "Stroke"
    /\ last.shape.kind = "Polygon"
    /\ last.handle.fill.present
    /\ last.handle.fill.calls = 1
    /\ last.after.fill.calls = 1

\* C3: a call whose mode asks for a slot that is None ends in the panic: the
\* process stops, no engine is invoked in its place and create_sprite gets
\* nothing.
MissingSlotIsFatal ==
    (Called /\ ~last.handle[ModeSlot(last.mode)].present) =>
        /\ last.outcome = "slot_missing"
        /\ status = "panicked"
        /\ last.engineCalls = <<>>
        /\ last.after = last.handle
        /\ last.handed = <<>>
        /\ assembled = calls - 1

MissingSlotReached ==
    /\ Called
    /\ last.mode.kind = "Stroke"
    /\ ~last.handle.stroke.present
    /\ last.handle.fill.present
    /\ last.handle.fill.calls = 1
    /\ status = "panicked"

\* C4: create_sprite is called only after the engine has accepted the path, and
\* then with the whole buffer; when the slot is missing or the engine rejects
\* the path the call panics and no buffer, empty or partly filled, is handed
\* over.
AllOrNothing ==
    /\ Called =>
        IF last.handed # <<>>
        THEN /\ last.outcome = "ok"
             /\ status = "running"
             /\ Len(last.engineCalls) = 1
             /\ EngineAccepts(last.engineCalls[1].request)
             /\ Len(last.geometry.vertices)
                    = Len(EngineEmit(last.engineCalls[1].slot,
                                     last.engineCalls[1].request).points)
        ELSE /\ last.outcome \in {"slot_missing", "rejected"}
             /\ status = "panicked"
    /\ (Tessellated /\ ~EngineAccepts(last.engineCalls[1].request)) =>
            last.handed = <<>>
    /\ assembled = IF status = "running" THEN calls ELSE calls - 1

AllOrNothingReached ==
    /\ last.outcome = "rejected"
    /\ last.geometry.vertices # <<>>
    /\ last.handed = <<>>
    /\ status = "panicked"
    /\ assembled = 1

\* C5: a polygon with no points, closed or not, converted with the slot of the
\* mode populated, completes, and the buffer handed to create_sprite has no
\* vertices and no indices.
EmptyPolygonIsEmptyMesh ==
    (/\ Called
     /\ last.shape.kind = "Polygon"
     /\ last.shape.points = <<>>
     /\ last.handle[ModeSlot(last.mode)].present) =>
        /\ last.outcome = "ok"
        /\ status = "running"
        /\ Len(last.handed) = 1
        /\ last.handed[1].geometry = [vertices |-> <<>>, indices |-> <<>>]

EmptyPolygonReached ==
    /\ last.outcome = "ok"
    /\ last.shape.kind = "Polygon"
    /\ last.shape.points = <<>>
    /\ ~last.shape.closed
    /\ last.mode.kind = "Stroke"

\* C6: a conversion of the same shape in the same mode as the one before it,
\* each on an unused handle with the same slots, ends the same way and builds
\* the same vertex positions, whatever the material and the transform.
ConversionDeterministic ==
    [][(/\ Called
        /\ calls' = calls + 1
        /\ last'.shape = last.shape
        /\ last'.mode = last.mode
        /\ Fresh(last.handle)
        /\ Fresh(last'.handle)
        /\ Presence(last'.handle) = Presence(last.handle)) =>
            /\ last'.outcome = last.outcome
            /\ last'.geometry.vertices = last.geometry.vertices]_vars

ConversionRepeated ==
    /\ calls = 2
    /\ last.prior = "same"
    /\ Fresh(last.handle)
    /\ last.outcome = "ok"
    /\ last.geometry.vertices # <<>>
    /\ last.material = "blue"

\* C7: a successful conversion calls create_sprite exactly once, with the
\* buffer it built, the material it was given and the translation of the
\* transform it was given; the vertices of the buffer are the engine's points
\* in the shape's own frame, not moved by the translation.
SpriteArguments ==
    /\ last.outcome = "ok" =>
        /\ Len(last.handed) = 1
        /\ last.handed[1].geometry = last.geometry
        /\ last.handed[1].material = last.material
        /\ last.handed[1].translation = last.transform.translation
        /\ Len(last.handed[1].geometry.vertices) = Len(last.emitted)
        /\ \A i \in 1..Len(last.emitted) :
                /\ last.handed[1].geometry.vertices[i][1] = last.emitted[i][1]
                /\ last.handed[1].geometry.vertices[i][2] = last.emitted[i][2]
    /\ status = "running" => assembled = calls

SpriteArgumentsReached ==
    /\ last.outcome = "ok"
    /\ last.material = "blue"
    /\ last.transform.translation = <<6, -2, 4>>
    /\ last.geometry.vertices # <<>>
    /\ assembled = 2

\* The points the engine can emit for the shapes drawn.
Coordinates == {-6, -2, 0, 2, 6}

\* C8: every vertex of every buffer is (x, y, 0) for the point (x, y) the
\* engine emitted for it, and the constructor of the Fill call site maps every
\* point as the constructor of the Stroke call site does, for each shape kind.
VertexIsFlatPoint ==
    /\ Called =>
        /\ Len(last.geometry.vertices) = Len(last.emitted)
        /\ \A i \in 1..Len(last.emitted) :
                last.geometry.vertices[i]
                    = <<last.emitted[i][1], last.emitted[i][2], 0>>
    /\ \A k \in Kinds, x \in Coordinates, y \in Coordinates :
            VertexCtor(k, "fill", <<x, y>>) = VertexCtor(k, "stroke", <<x, y>>)

VertexIsFlatPointReached ==
    /\ last.outcome = "ok"
    /\ last.shape.kind = "Ellipse"
    /\ last.mode.kind = "Stroke"
    /\ Len(last.geometry.vertices) = 8

\* The buffer a first conversion builds from one engine call.
OwnBuffer(slot, req) ==
    LET emitted == EngineEmit(slot, req)
    IN  [vertices |-> [i \in 1..Len(emitted.points) |->
                            <<emitted.points[i][1], emitted.points[i][2], 0>>],
         indices |-> emitted.indices]

\* C9: every conversion, also on a handle used before, starts from an empty
\* buffer, and the buffer it hands over holds the vertices and indices of its
\* own engine call and nothing of the conversion before it.
BufferIsOwn ==
    /\ Called => last.start = [vertices |-> <<>>, indices |-> <<>>]
    /\ last.outcome = "ok" =>
        /\ Len(last.engineCalls) = 1
        /\ last.handed[1].geometry
                = OwnBuffer(last.engineCalls[1].slot,
                            last.engineCalls[1].request)

BufferIsOwnReached ==
    /\ calls = 2
    /\ last.outcome = "ok"
    /\ last.prior = "other"
    /\ ~Fresh(last.handle)
    /\ last.handle[ModeSlot(last.mode)].calls = 1
    /\ last.geometry.vertices # <<>>

\* C10: the ellipse entry point is called with the centre and the radii of the
\* shape, angle zero and winding Positive, in Fill and in Stroke mode, and the
\* two call sites build the same arguments but for the options.
EllipseArguments ==
    /\ (Tessellated /\ last.shape.kind = "Ellipse") =>
            LET req == last.engineCalls[1].request
            IN  /\ req.entry = "tessellate_ellipse"
                /\ req.center = <<last.shape.center.x, last.shape.center.y>>
                /\ req.radii = <<last.shape.radii.x, last.shape.radii.y>>
                /\ req.angle = 0
                /\ req.winding = "Positive"
                /\ req.options = last.mode.options
    /\ \A e \in Ellipses, f \in FillModes, g \in StrokeModes :
            [Request(e, f) EXCEPT !.options = 0]
                = [Request(e, g) EXCEPT !.options = 0]

EllipseArgumentsReached ==
    /\ last.outcome = "ok"
    /\ last.shape.kind = "Ellipse"
    /\ last.shape.center = [x |-> 2, y |-> -2]
    /\ last.mode.kind = "Stroke"
    /\ last.mode.options.line_width = 4

====
